---- MODULE Spec2Model ----
(***************************************************************************)
(* Model of the package-loading pipeline of the interpreter:               *)
(* Interpreter.importSrc and its helpers in interp/src.go.                 *)
(*                                                                         *)
(* A path string is modelled by the sequence of its segments, i.e. by the  *)
(* result of strings.Split(s, "/"): "a/b" is <<"a","b">>, "./b" is         *)
(* <<".","b">>, "" is <<"">> and "/a" is <<"","a">>.                       *)
(***************************************************************************)
EXTENDS Integers, Sequences, FiniteSets, TLC

\* ------------------------------------------------------------------ bounds

\* top-level importSrc calls issued by one evaluation (goroutine)
MaxCalls == 2
\* longest directory listing
MaxFiles == 2
\* calls of a collaborator (package index, file system, parser, GTA, CFG
\* builder, code generator) that fail or yield nothing, per behaviour
MaxFaults == 1
\* top-level importSrc calls of each of two concurrent evaluations
ConcCalls == 1

\* ------------------------------------------------------------ path strings

mainID == "main"

EmptyStr == <<"">>

Last(s) == s[Len(s)]

Front(s) == SubSeq(s, 1, Len(s) - 1)

\* filepath.Clean on the segments of a relative or rooted path
RECURSIVE CleanSegs(_, _, _)
CleanSegs(segs, out, rooted) ==
    IF segs = <<>> THEN out
    ELSE LET h == Head(segs)
             t == Tail(segs)
         IN  IF h = "" \/ h = "." THEN CleanSegs(t, out, rooted)
             ELSE IF h = ".."
                  THEN IF out # <<>> /\ Last(out) # ".."
                       THEN CleanSegs(t, Front(out), rooted)
                       ELSE IF rooted THEN CleanSegs(t, out, rooted)
                            ELSE CleanSegs(t, Append(out, ".."), rooted)
                  ELSE CleanSegs(t, Append(out, h), rooted)

Clean(s) ==
    LET rooted == Len(s) > 1 /\ s[1] = ""
        body   == CleanSegs(s, <<>>, rooted)
    IN  IF rooted THEN <<"">> \o (IF body = <<>> THEN <<"">> ELSE body)
        ELSE IF body = <<>> THEN <<".">> ELSE body

\* filepath.Join(a, b): empty elements are ignored, the result is cleaned,
\* and the join of empty elements only is the empty string
Join(a, b) ==
    IF a = EmptyStr /\ b = EmptyStr THEN EmptyStr
    ELSE IF a = EmptyStr THEN Clean(b)
    ELSE IF b = EmptyStr THEN Clean(a)
    ELSE Clean(a \o b)

\* filepath.Dir of a cleaned path
Dir(s) ==
    IF Len(s) <= 1 THEN <<".">>
    ELSE IF Len(s) = 2 /\ s[1] = "" THEN <<"", "">>
    ELSE Clean(Front(s))

isPathRelative(s) == Len(s) >= 2 /\ s[1] \in {".", ".."}

\* the loop of effectivePkg with the last segment of path compared with root
\* like the others
RECURSIVE effLoop_NoFirstGuard(_, _, _, _, _, _)
effLoop_NoFirstGuard(splitRoot, splitPath, i, rootIndex, prevRootIndex, result) ==
    IF i >= Len(splitPath) THEN result
    ELSE LET part  == splitPath[Len(splitPath) - i]
             index == Len(splitRoot) - 1 - rootIndex
         IN  IF index > 0 /\ part = splitRoot[index + 1]
             THEN effLoop_NoFirstGuard(splitRoot, splitPath, i + 1, rootIndex + 1, rootIndex,
                                       result)
             ELSE IF prevRootIndex = rootIndex
                  THEN effLoop_NoFirstGuard(splitRoot, splitPath, i + 1, rootIndex,
                                            prevRootIndex, Append(result, <<part>>))
                  ELSE effLoop_NoFirstGuard(splitRoot, splitPath, i + 1, rootIndex,
                                            prevRootIndex, result)

\* the loop of effectivePkg over the segments of path, last segment first
RECURSIVE effLoop(_, _, _, _, _, _)
effLoop(splitRoot, splitPath, i, rootIndex, prevRootIndex, result) ==
    IF i >= Len(splitPath) THEN result
    ELSE LET part  == splitPath[Len(splitPath) - i]
             index == Len(splitRoot) - 1 - rootIndex
         IN  IF index > 0 /\ part = splitRoot[index + 1] /\ i # 0
             THEN effLoop(splitRoot, splitPath, i + 1, rootIndex + 1, rootIndex, result)
             ELSE IF prevRootIndex = rootIndex
                  THEN effLoop(splitRoot, splitPath, i + 1, rootIndex, prevRootIndex,
                               Append(result, <<part>>))
                  ELSE effLoop(splitRoot, splitPath, i + 1, rootIndex, prevRootIndex, result)

\* the indexes at which the loop of effectivePkg reads splitRoot
RECURSIVE effAccess(_, _, _, _, _, _)
effAccess(splitRoot, splitPath, i, rootIndex, prevRootIndex, acc) ==
    IF i >= Len(splitPath) THEN acc
    ELSE LET part  == splitPath[Len(splitPath) - i]
             index == Len(splitRoot) - 1 - rootIndex
         IN  IF index > 0
             THEN IF part = splitRoot[index + 1] /\ i # 0
                  THEN effAccess(splitRoot, splitPath, i + 1, rootIndex + 1, rootIndex,
                                 acc \cup {index})
                  ELSE effAccess(splitRoot, splitPath, i + 1, rootIndex, prevRootIndex,
                                 acc \cup {index})
             ELSE effAccess(splitRoot, splitPath, i + 1, rootIndex, prevRootIndex, acc)

\* frag = Join(frag, result[i]) for i from len(result)-1 down to 0
RECURSIVE effFrag(_, _, _)
effFrag(result, i, frag) ==
    IF i < 1 THEN frag ELSE effFrag(result, i - 1, Join(frag, result[i]))

effectivePkg(root, path) ==
    LET result == effLoop(root, path, 0, 0, 0, <<>>)
    IN  Join(root, effFrag(result, Len(result), EmptyStr))

\* ----------------------------------------------------- errors and results

Err(kind, path, n1, n2) == [kind |-> kind, path |-> path, n1 |-> n1, n2 |-> n2]

NoErr == Err("", <<>>, "", "")

\* fmt.Errorf("import cycle not allowed\n\timports %s", importPath)
CycleErr(importPath) == Err("cycle", importPath, "", "")

\* fmt.Errorf("found packages %s and %s in %s", pkgName, pname, dir)
ConflictErr(pkgName, pname, dir) == Err("conflict", dir, pkgName, pname)

\* fmt.Errorf("inconsistent knowledge about %s", importPath)
InconsistentErr(importPath) == Err("inconsistent", importPath, "", "")

\* an error of a collaborator (filesystem, parser, GTA, CFG, code generation)
PhaseErr(kind, importPath) == Err(kind, importPath, "", "")

\* ------------------------------------------------------------- file system

\* a source file: its name split into base, test marker and extension, the
\* package clause, the import specs, the top-level declarations (identifier
\* and the identifier its initializer references, "" for none), the number
\* of init functions and whether it declares func main
File(base, test, pkg, imports, decls, inits, hasMain) ==
    [name |-> <<base, IF test THEN "_test" ELSE "", ".go">>, pkg |-> pkg,
     imports |-> imports, decls |-> decls, inits |-> inits, hasMain |-> hasMain]

Decl(id, ref) == [id |-> id, ref |-> ref]

PathMain == <<"main">>

PathB == <<"b">>

PathRelB == <<".", "b">>

PathC == <<"c">>

ImportPaths == {PathMain, PathB, PathRelB, PathC}

\* directory of the file given to the interpreter (filepath.Dir(interp.name))
NameDir == <<"src">>

\* $GOPATH/src, relative to the working directory
GoPathSrc == <<"src">>

DirMain == <<"src", "main">>

DirB == <<"src", "b">>

FilesMain ==
    { File("m1", FALSE, "main", <<PathB>>, <<Decl("f", "g")>>, 1, FALSE),
      File("m2", FALSE, "main", <<>>, <<Decl("g", "")>>, 1, TRUE),
      File("m3", TRUE, "main_test", <<>>, <<Decl("h", "g")>>, 1, FALSE) }

FilesB ==
    { File("b1", FALSE, "b", <<PathMain>>, <<Decl("u", "v")>>, 1, FALSE),
      File("b2", FALSE, "bx", <<>>, <<>>, 1, FALSE),
      File("b3", FALSE, "b", <<>>, <<Decl("v", "")>>, 1, FALSE) }

\* the directory listings fs.ReadDir can return for a pool of files: every
\* order of every subset of at most MaxFiles files
Listings(pool) ==
    UNION { { l \in [1..n -> pool] : \A x, y \in 1..n : x # y => l[x] # l[y] }
            : n \in 0..MaxFiles }

\* values of the GOTOOLDIR option
GoToolDirs == { EmptyStr, <<"", "usr", "go", "tool">>, <<"", "opt">> }

\* directories of the operating system's tree that filepath.WalkDir visits
OSDirs == { <<"", "usr", "go">>, <<"", "usr", "go", "tool">>, <<"", "usr", "go", "src">> }

\* relative-path contexts a top-level caller passes: "main", and for a
\* relative import path also a directory
TopRPaths(importPath) ==
    IF Len(importPath) >= 2 /\ importPath[1] \in {".", ".."}
    THEN { <<mainID>>, <<"a">> }
    ELSE { <<mainID>> }

Threads == {"t1", "t2"}

\* ----------------------------------------------------- directory discovery

ToLower(seg) == IF seg \in {"Go", "GO", "gO"} THEN "go" ELSE seg

\* strings.Split(filepath.Join(initial), "/")
SplitJoin(initial) == IF initial = EmptyStr THEN EmptyStr ELSE Clean(initial)

\* searchUpDirPath; err is "" on success, "notwithin" for the error it
\* returns, and "overflow" when the recursion never ends (filepath.Dir of
\* the path is the path itself)
RECURSIVE searchUpDirPath(_, _, _)
searchUpDirPath(initial, target, isCaseSensitive) ==
    LET splitdir == SplitJoin(initial)
        updir    == IF isCaseSensitive THEN Last(splitdir) ELSE ToLower(Last(splitdir))
    IN  IF Len(splitdir) = 1 THEN [path |-> EmptyStr, err |-> "notwithin"]
        ELSE IF updir = target THEN [path |-> initial, err |-> ""]
        ELSE IF Dir(initial) = initial THEN [path |-> EmptyStr, err |-> "overflow"]
        ELSE searchUpDirPath(Dir(initial), target, isCaseSensitive)

IsUnder(d, top) == Len(d) >= Len(top) /\ SubSeq(d, 1, Len(top)) = top

\* searchDirs: the directory below initial whose name is the target string
searchDirs(initial, target) ==
    LET found == { d \in OSDirs : IsUnder(d, Clean(initial)) /\ <<Last(d)>> = target }
    IN  IF Clean(initial) \notin OSDirs THEN [path |-> EmptyStr, err |-> "walkpanic"]
        ELSE IF found # {} THEN [path |-> CHOOSE d \in found : TRUE, err |-> ""]
        ELSE [path |-> EmptyStr, err |-> "notwithin"]

\* strings.Contains(dir, name) for a package name, which holds no separator
Contains(dir, name) == name = "" \/ \E k \in 1..Len(dir) : dir[k] = name

IsTestName(name) == name[2] = "_test"

NonTest(listing) == SelectSeq(listing, LAMBDA f : ~IsTestName(f.name))

\* packages.Load(&config, importPath): the package index knows the
\* directories below $GOPATH/src that hold non-test Go files
PackagesLoad(fs, importPath) ==
    LET d == GoPathSrc \o importPath
    IN  IF d \in DOMAIN fs /\ NonTest(fs[d]) # <<>>
        THEN << [Name |-> NonTest(fs[d])[1].pkg,
                 GoFiles |-> [k \in 1..Len(NonTest(fs[d])) |-> d] ] >>
        ELSE << [Name |-> "", GoFiles |-> <<>>] >>

\* the process ends: searchUpDirPath has overflowed the stack, or the filter
\* of searchDirs has called d.IsDir() on the nil entry that WalkDir passes
\* for a root it cannot read
FatalErr(importPath) == PhaseErr("fatal", importPath)

\* getPackageDir; GoFiles holds filepath.Dir of each file
getPackageDir(fs, gtd, importPath, loadErr) ==
    LET pkgs  == PackagesLoad(fs, importPath)
        hits  == { <<x, y>> \in (1..Len(pkgs)) \X (1..MaxFiles) :
                     y <= Len(pkgs[x].GoFiles)
                     /\ Contains(pkgs[x].GoFiles[y], pkgs[x].Name) }
        first == CHOOSE h \in hits : \A g \in hits :
                     h[1] < g[1] \/ (h[1] = g[1] /\ h[2] <= g[2])
        godir == searchUpDirPath(gtd, "go", FALSE)
        abs   == searchDirs(godir.path, importPath)
    IN  IF loadErr THEN [dir |-> EmptyStr, err |-> PhaseErr("load", importPath)]
        ELSE IF hits # {}
             THEN [dir |-> pkgs[first[1]].GoFiles[first[2]], err |-> NoErr]
        ELSE IF gtd # EmptyStr
             THEN IF godir.err = "overflow"
                  THEN [dir |-> EmptyStr, err |-> FatalErr(importPath)]
                  ELSE IF godir.err # ""
                  THEN [dir |-> EmptyStr, err |-> PhaseErr("notfound", importPath)]
                  ELSE IF abs.err = "walkpanic"
                  THEN [dir |-> EmptyStr, err |-> FatalErr(importPath)]
                  ELSE IF abs.err # ""
                  THEN [dir |-> EmptyStr, err |-> PhaseErr("notfound", importPath)]
                  ELSE [dir |-> abs.path, err |-> NoErr]
        ELSE [dir |-> EmptyStr, err |-> PhaseErr("unconfigured", importPath)]

\* ------------------------------------------------------------------ state

VARIABLES
    fsys,       \* interp.opt.filesystem: directory -> listing of files
    goToolDir,  \* interp.opt.env["goToolDir"]
    srcPkg,     \* interp.srcPkg: import path -> symbol table or nil
    pkgNames,   \* interp.pkgNames: import path -> display name
    rdir,       \* interp.rdir: import path -> in-progress flag
    scopes,     \* interp.scopes: import path -> package scope or nil
    frameSize,  \* len(interp.frame.data)
    mutex,      \* interp.mutex: the goroutine holding it, or ""
    fmutex,     \* interp.frame.mutex: the goroutine holding it, or ""
    panicked,   \* a goroutine panicked: the process is gone
    faults,     \* collaborator calls that failed or yielded nothing so far
    stack,      \* per goroutine: the importSrc invocations on its call stack
    ret,        \* per goroutine: the result of the importSrc that returned last
    calls,      \* per goroutine: top-level importSrc calls issued so far
    quota,      \* per goroutine: the top-level calls it is to issue
    targets,    \* the import paths the top-level calls ask for
    reads,      \* history: ReadFile calls per (import path, file)
    regs,       \* history: per import path, the init nodes of each invocation
                \* that wrote srcPkg[p]
    execs,      \* history: executions per (import path, node)
    succ,       \* history: per import path, the first successful result
    pathCall    \* the call of searchUpDirPath or effectivePkg made on its own,
                \* with its arguments and its result

world == <<fsys, goToolDir, quota, targets, pathCall>>

\* whether a collaborator may fail now
Faulty == IF faults < MaxFaults THEN BOOLEAN ELSE {FALSE}

Fault(failed) == faults' = IF failed THEN faults + 1 ELSE faults

shared == <<srcPkg, pkgNames, rdir, scopes, frameSize, mutex, fmutex>>

hist == <<reads, regs, execs>>

vars == <<fsys, goToolDir, quota, targets, srcPkg, pkgNames, rdir, scopes, frameSize, mutex,
          fmutex, panicked, faults, stack, ret, calls, reads, regs, execs, succ,
          pathCall>>

\* a nil *scope / nil symbol map, and a scope with its symbols: the
\* identifiers declared so far, each with the file of its defining node
NilScope == [nil |-> TRUE, sym |-> {}]

\* a nil symbol map, and the symbol map of the scope of an import path
\* (srcPkg[p] = gs.sym shares the map with the scope)
NilSym == [nil |-> TRUE, scope |-> <<>>]

SymOf(importPath) == [nil |-> FALSE, scope |-> importPath]

Scope(sym) == [nil |-> FALSE, sym |-> sym]

NoName == [ok |-> FALSE, name |-> ""]

\* the locals of an importSrc invocation that has not started
BlankFrame ==
    [pc |-> "", rPath |-> EmptyStr, importPath |-> EmptyStr, skipTest |-> FALSE,
     dir |-> <<>>, files |-> <<>>, i |-> 1, j |-> 1, pkgName |-> "",
     rootNodes |-> <<>>, revisit |-> {}, initNodes |-> <<>>,
     disc |-> 0, io |-> 0, after |-> FALSE, reentrant |-> FALSE, stale |-> FALSE,
     again |-> FALSE, log |-> <<>>]

\* what an importSrc returned, at which depth of the call stack, and the
\* locals it returned with
NoRet == [valid |-> FALSE, name |-> "", err |-> NoErr, depth |-> 0, fr |-> BlankFrame]

NoSucc == [ok |-> FALSE, name |-> ""]

EmptyFcn == [x \in {} |-> 0]

Count(f, k) == IF k \in DOMAIN f THEN f[k] ELSE 0

Bump(f, k) == (k :> (Count(f, k) + 1)) @@ f

\* no call of a path function has been made on its own
NoPathCall == [fn |-> "", a |-> <<>>, b |-> <<>>, cs |-> FALSE, out |-> <<>>, err |-> ""]

InitWith(fs, gtd, q, tg) ==
    /\ fsys = fs
    /\ goToolDir = gtd
    /\ quota = q
    /\ targets = tg
    /\ srcPkg = [p \in ImportPaths |-> NilSym]
    /\ pkgNames = [p \in ImportPaths |-> NoName]
    /\ rdir = [p \in ImportPaths |-> FALSE]
    /\ scopes = [p \in ImportPaths |-> NilScope]
    /\ frameSize = 0
    /\ mutex = ""
    /\ fmutex = ""
    /\ panicked = FALSE
    /\ faults = 0
    /\ stack = [t \in Threads |-> <<>>]
    /\ ret = [t \in Threads |-> NoRet]
    /\ calls = [t \in Threads |-> 0]
    /\ reads = EmptyFcn
    /\ regs = [p \in ImportPaths |-> <<>>]
    /\ execs = EmptyFcn
    /\ succ = [p \in ImportPaths |-> NoSucc]
    /\ pathCall = NoPathCall

FileSystem(lm, lb) == (DirMain :> lm) @@ (DirB :> lb)

\* a single evaluation issues every call
OneThread == [t \in Threads |-> IF t = "t1" THEN MaxCalls ELSE 0]

\* one evaluation drives the interpreter, over any file system with
\* GOTOOLDIR unset, or over any environment with src/main empty
Init ==
    \/ \E lm \in Listings(FilesMain), lb \in Listings(FilesB) :
         InitWith(FileSystem(lm, lb), EmptyStr, OneThread, ImportPaths)
    \/ \E lb \in Listings(FilesB), gtd \in GoToolDirs \ {EmptyStr} :
         InitWith(FileSystem(<<>>, lb), gtd, OneThread, ImportPaths)

\* -------------------------------------------------------- call stack

\* the locals of one importSrc invocation of goroutine t. disc and io count
\* its calls of directory discovery and of the file system, log is the trace
\* of what it has done; after tells that an importSrc of the path had
\* succeeded when it was called, reentrant that one was on the call stack,
\* stale that the path was marked in rdir by an invocation that is over and
\* no importSrc of the path had succeeded, again that the importSrc that
\* returned last to the goroutine was one of this path that failed to locate
\* the directory
NewFrame(t, rPath, importPath, skipTest) ==
    [BlankFrame EXCEPT !.pc = "L20", !.rPath = rPath, !.importPath = importPath,
                       !.skipTest = skipTest, !.after = succ[importPath].ok,
                       !.reentrant = \E k \in 1..Len(stack[t]) :
                                        stack[t][k].importPath = importPath,
                       !.stale = /\ rdir[importPath]
                                 /\ ~succ[importPath].ok
                                 /\ \A u \in Threads : \A k \in 1..Len(stack[u]) :
                                      stack[u][k].importPath # importPath,
                       !.again = /\ ret[t].valid
                                 /\ ret[t].fr.importPath = importPath
                                 /\ ret[t].fr.pc = "L29"
                                 /\ ret[t].err.kind \in {"notfound", "unconfigured"}]

Top(t) == stack[t][Len(stack[t])]

At(t, pc) == ~panicked /\ stack[t] # <<>> /\ Top(t).pc = pc

\* an entry of the trace: what was done, to which file or identifier
Ev(kind, what, k) == [kind |-> kind, what |-> what, k |-> k]

Logged(f, ev) == [f EXCEPT !.log = Append(@, ev)]

\* the invocation goes on with locals f2
Goto(t, f2) ==
    /\ stack' = [stack EXCEPT ![t] = [@ EXCEPT ![Len(@)] = f2]]
    /\ UNCHANGED <<ret, succ>>

\* the invocation with locals f returns (name, err) to its caller
Return(t, f, name, err) ==
    /\ stack' = [stack EXCEPT ![t] = Front(@)]
    /\ ret' = [ret EXCEPT ![t] = [valid |-> TRUE, name |-> name, err |-> err,
                                  depth |-> Len(stack[t]), fr |-> f]]
    /\ succ' = IF err = NoErr /\ ~succ[f.importPath].ok
               THEN [succ EXCEPT ![f.importPath] = [ok |-> TRUE, name |-> name]]
               ELSE succ

\* a top-level evaluation calls importSrc(rPath, importPath, skipTest)
Call(t) ==
    /\ ~panicked
    /\ stack[t] = <<>>
    /\ calls[t] < quota[t]
    /\ \E importPath \in targets, skipTest \in BOOLEAN :
       \E rPath \in TopRPaths(importPath) :
         stack' = [stack EXCEPT ![t] = <<NewFrame(t, rPath, importPath, skipTest)>>]
    /\ calls' = [calls EXCEPT ![t] = @ + 1]
    /\ ret' = [ret EXCEPT ![t] = NoRet]
    /\ UNCHANGED <<world, shared, panicked, faults, hist, succ>>

\* ------------------------------------------------- importSrc, lines 20-48

IsCached_Never(importPath) == FALSE

\* interp.srcPkg[importPath] != nil
IsCached(importPath) == ~srcPkg[importPath].nil

CheckCached(t) ==
    /\ At(t, "L20")
    /\ Goto(t, [Top(t) EXCEPT !.pc = IF IsCached(Top(t).importPath) THEN "L21" ELSE "L29"])
    /\ UNCHANGED <<world, shared, panicked, faults, calls, hist>>

\* name, ok := interp.pkgNames[importPath]
ReturnCached(t) ==
    /\ At(t, "L21")
    /\ LET f == Top(t)
           e == pkgNames[f.importPath]
       IN  IF ~e.ok THEN Return(t, f, "", InconsistentErr(f.importPath))
           ELSE Return(t, f, e.name, NoErr)
    /\ UNCHANGED <<world, shared, panicked, faults, calls, hist>>

\* the directory of a relative import path, with rPath as line 31 leaves it
RelativeDir(rPath, importPath) == Join(Join(NameDir, rPath), importPath)

ResolveDir(t) ==
    /\ At(t, "L29")
    /\ LET f == Top(t)
       IN  IF isPathRelative(f.importPath)
           THEN LET r == IF f.rPath = <<mainID>> THEN <<".">> ELSE f.rPath
                IN  /\ Goto(t, [f EXCEPT !.pc = "L40", !.rPath = r,
                                         !.dir = RelativeDir(r, f.importPath)])
                    /\ UNCHANGED <<faults, panicked>>
           ELSE \E loadErr \in Faulty :
                  LET d == getPackageDir(fsys, goToolDir, f.importPath, loadErr)
                      g == [f EXCEPT !.disc = @ + 1]
                  IN  /\ Fault(loadErr)
                      /\ IF d.err = FatalErr(f.importPath)
                         THEN panicked' = TRUE /\ UNCHANGED <<stack, ret, succ>>
                         ELSE /\ UNCHANGED panicked
                              /\ IF d.err # NoErr THEN Return(t, g, "", d.err)
                                 ELSE Goto(t, [g EXCEPT !.pc = "L40", !.dir = d.dir])
    /\ UNCHANGED <<world, shared, calls, hist>>

\* interp.rdir[importPath]
InProgress(importPath) == rdir[importPath]

CheckCycle(t) ==
    /\ At(t, "L40")
    /\ LET f == Top(t)
       IN  IF InProgress(f.importPath) THEN Return(t, f, "", CycleErr(f.importPath))
           ELSE Goto(t, [f EXCEPT !.pc = "L43"])
    /\ UNCHANGED <<world, shared, panicked, faults, calls, hist>>

\* a write of a map by goroutine t while another goroutine is about to read
\* or write the same map (it is at one of the lines pcs) is a data race: the
\* Go runtime either lets the write through or ends the process with
\* "fatal error: concurrent map read and map write" / "concurrent map writes"
MapRace(t, pcs) ==
    IF \E u \in Threads \ {t} : stack[u] # <<>> /\ Top(u).pc \in pcs
    THEN BOOLEAN ELSE {FALSE}

\* interp.rdir[importPath] = true
MarkInProgress(t) ==
    /\ At(t, "L43")
    /\ \E fatal \in MapRace(t, {"L40", "L43"}) :
         IF fatal
         THEN panicked' = TRUE /\ UNCHANGED <<rdir, stack, ret, succ>>
         ELSE /\ rdir' = [rdir EXCEPT ![Top(t).importPath] = TRUE]
              /\ Goto(t, [Top(t) EXCEPT !.pc = "L45"])
              /\ UNCHANGED panicked
    /\ UNCHANGED <<world, srcPkg, pkgNames, scopes, frameSize, mutex, fmutex,
                   faults, calls, hist>>

\* files, err := fs.ReadDir(interp.opt.filesystem, dir)
ReadDir(t) ==
    /\ At(t, "L45")
    /\ LET f == [Top(t) EXCEPT !.io = @ + 1]
       IN  \E ioErr \in Faulty :
             /\ Fault(ioErr)
             /\ IF ioErr \/ f.dir \notin DOMAIN fsys
                THEN Return(t, f, "", PhaseErr("readdir", f.importPath))
                ELSE Goto(t, [f EXCEPT !.pc = "L58", !.files = fsys[f.dir], !.i = 1])
    /\ UNCHANGED <<world, shared, panicked, calls, hist>>

\* ------------------------------------------------ importSrc, lines 58-107

\* skipFile(&interp.context, name, skipTest)
skipFile(name, skipTest) == name[3] # ".go" \/ (skipTest /\ IsTestName(name))

NameConflict_Never(pkgName, pname, skipTest) == FALSE

\* pkgName != pname && skipTest, for a pkgName that is set
NameConflict(pkgName, pname, skipTest) == pkgName # pname /\ skipTest

\* what reading, parsing and converting one file can come to: an error of
\* ReadFile, parse or ast, a nil syntax tree or root, or an AST root
ParseOutcomes == {"ok", "nil", "readfile", "parse", "ast"}

\* interp.initScopePkg: the package scope is created by the first file
initScopePkg(sc, importPath) ==
    IF sc[importPath].nil THEN [sc EXCEPT ![importPath] = Scope({})] ELSE sc

\* one iteration of the loop over files, up to the call of gta
ParseFile(t) ==
    /\ At(t, "L58")
    /\ LET f == Top(t)
       IN  IF f.i > Len(f.files)
           THEN Goto(t, [f EXCEPT !.pc = "L110"]) /\ UNCHANGED <<reads, scopes, faults>>
           ELSE LET file == f.files[f.i]
                    g    == Logged([f EXCEPT !.io = @ + 1], Ev("read", file.name[1], 0))
                IN  IF skipFile(file.name, f.skipTest)
                    THEN Goto(t, [f EXCEPT !.i = @ + 1]) /\ UNCHANGED <<reads, scopes, faults>>
                    ELSE /\ reads' = Bump(reads, <<f.importPath, file.name[1]>>)
                         /\ \E outcome \in ParseOutcomes :
                              /\ outcome # "ok" => faults < MaxFaults
                              /\ Fault(outcome # "ok")
                              /\ IF outcome \in {"readfile", "parse", "ast"}
                                 THEN /\ Return(t, g, "", PhaseErr(outcome, f.importPath))
                                      /\ UNCHANGED scopes
                                 ELSE IF outcome = "nil"
                                 THEN Goto(t, [g EXCEPT !.i = @ + 1]) /\ UNCHANGED scopes
                                 ELSE IF g.pkgName # ""
                                         /\ NameConflict(g.pkgName, file.pkg, g.skipTest)
                                 THEN /\ Return(t, g, "", ConflictErr(g.pkgName, file.pkg, g.dir))
                                      /\ UNCHANGED scopes
                                 ELSE /\ Goto(t, [g EXCEPT
                                            !.pkgName = IF @ = "" THEN file.pkg ELSE @,
                                            !.rootNodes = Append(@, file),
                                            !.pc = "L102", !.j = 1])
                                      /\ scopes' = initScopePkg(scopes, g.importPath)
    /\ UNCHANGED <<world, srcPkg, pkgNames, rdir, frameSize, mutex, fmutex, panicked,
                   calls, regs, execs>>

SubRPath_PerFile(f) ==
    IF f.pc = "L102" THEN effectivePkg(f.rPath, f.importPath) \o f.files[f.i].name
    ELSE effectivePkg(f.rPath, f.importPath)

\* subRPath := effectivePkg(rPath, importPath)
SubRPath(f) == effectivePkg(f.rPath, f.importPath)

\* gta meets the next import spec of the file: it calls importSrc
GtaImport(t) ==
    /\ At(t, "L102")
    /\ LET f    == Top(t)
           file == f.files[f.i]
       IN  /\ f.j <= Len(file.imports)
           /\ \E skipTest \in BOOLEAN :
                stack' = [stack EXCEPT ![t] =
                            Append([@ EXCEPT ![Len(@)] = [f EXCEPT !.pc = "L102w"]],
                                   NewFrame(t, SubRPath(f), file.imports[f.j], skipTest))]
    /\ UNCHANGED <<world, shared, panicked, faults, ret, calls, hist, succ>>

\* the nested importSrc has returned: gta passes its error on (lines 103-105)
GtaResume(t) ==
    /\ At(t, "L102w")
    /\ ret[t].valid
    /\ LET f == Top(t)
       IN  IF ret[t].err # NoErr THEN Return(t, f, "", ret[t].err)
           ELSE Goto(t, [f EXCEPT !.pc = "L102", !.j = @ + 1])
    /\ UNCHANGED <<world, shared, panicked, faults, calls, hist>>

Ids(sym) == { x.id : x \in sym }

declare(sym, id, file) == sym \cup {[id |-> id, file |-> file]}

\* phase one over the declarations of a file: each is registered; one whose
\* initializer references an identifier not yet declared is deferred
RECURSIVE gtaDecls(_, _, _, _, _)
gtaDecls(decls, k, file, sym, list) ==
    IF k > Len(decls) THEN [sym |-> sym, list |-> list]
    ELSE LET d    == decls[k]
             sym2 == declare(sym, d.id, file)
         IN  gtaDecls(decls, k + 1, file, sym2,
                      IF d.ref # "" /\ d.ref \notin Ids(sym2)
                      THEN Append(list, [file |-> file, id |-> d.id, ref |-> d.ref])
                      ELSE list)

gta(sym, file) ==
    LET r == gtaDecls(file.decls, 1, file.name[1], sym, <<>>)
    IN  [sym  |-> IF file.hasMain THEN declare(r.sym, mainID, file.name[1]) ELSE r.sym,
         list |-> r.list]

\* the trace of the declarations that gta returns in list as incomplete
DeferEvents(list) == [k \in 1..Len(list) |-> Ev("defer", list[k].id, 0)]

AppendRevisit_Overwrite(revisit, key, list) ==
    { e \in revisit : e.key # key } \cup {[key |-> key, nodes |-> list]}

\* revisit[subRPath] = append(revisit[subRPath], list...)
AppendRevisit(revisit, key, list) ==
    IF \E e \in revisit : e.key = key
    THEN { IF e.key = key THEN [e EXCEPT !.nodes = @ \o list] ELSE e : e \in revisit }
    ELSE revisit \cup {[key |-> key, nodes |-> list]}

\* gta on the declarations of the file, then line 106
GtaDecls(t) ==
    /\ At(t, "L102")
    /\ LET f    == Top(t)
           file == f.files[f.i]
           r    == gta(scopes[f.importPath].sym, file)
           g    == Logged(f, Ev("gta", file.name[1], 0))
       IN  /\ f.j > Len(file.imports)
           /\ \E gtaErr \in Faulty :
                /\ Fault(gtaErr)
                /\ IF gtaErr
                   THEN Return(t, g, "", PhaseErr("gta", f.importPath)) /\ UNCHANGED scopes
                   ELSE /\ scopes' = [scopes EXCEPT ![f.importPath] = Scope(r.sym)]
                        /\ Goto(t, [g EXCEPT !.pc = "L58", !.i = @ + 1,
                                         !.log = @ \o DeferEvents(r.list),
                                         !.revisit = AppendRevisit(@, SubRPath(f), r.list)])
    /\ UNCHANGED <<world, srcPkg, pkgNames, rdir, frameSize, mutex, fmutex, panicked,
                   calls, hist>>

\* ----------------------------------------------- importSrc, lines 109-123

\* the orders in which a range over a map can visit its entries
Orders(S) ==
    { o \in [1..Cardinality(S) -> S] : \A x, y \in 1..Cardinality(S) : x # y => o[x] # o[y] }

Unresolved(nodes, sym) == \E k \in 1..Len(nodes) : nodes[k].ref \notin Ids(sym)

RetryEvents(nodes) == [k \in 1..Len(nodes) |-> Ev("retry", nodes[k].id, 0)]

\* gtaRetry on the entries of revisit, in the order o, up to the first error
RECURSIVE retryLoop(_, _, _, _)
retryLoop(o, k, sym, log) ==
    IF k > Len(o) THEN [log |-> log, err |-> FALSE]
    ELSE IF Unresolved(o[k].nodes, sym)
         THEN [log |-> log \o RetryEvents(o[k].nodes), err |-> TRUE]
         ELSE retryLoop(o, k + 1, sym, log \o RetryEvents(o[k].nodes))

GtaRetry(t) ==
    /\ At(t, "L110")
    /\ LET f == Top(t)
       IN  \E o \in Orders(f.revisit) :
             LET r == retryLoop(o, 1, scopes[f.importPath].sym, f.log)
                 g == [f EXCEPT !.log = r.log]
             IN  IF r.err THEN Return(t, g, "", PhaseErr("unresolved", f.importPath))
                 ELSE Goto(t, [g EXCEPT !.pc = "L117"])
    /\ UNCHANGED <<world, shared, panicked, faults, calls, hist>>

\* the nodes cfg returns for a root: the init functions of the file
InitNodesOf(file) == [k \in 1..file.inits |-> Ev("init", file.name[1], k)]

RECURSIVE Flatten(_)
Flatten(ss) == IF ss = <<>> THEN <<>> ELSE Head(ss) \o Flatten(Tail(ss))

\* the loop over rootNodes that builds the control flow graphs; it fails
\* at root number failAt, or at none when failAt is 0
BuildCfg(t) ==
    /\ At(t, "L117")
    /\ LET f == Top(t)
           n == Len(f.rootNodes)
       IN  \E failAt \in 0..(IF faults < MaxFaults THEN n ELSE 0) :
             LET done == IF failAt = 0 THEN n ELSE failAt
                 g    == [f EXCEPT !.log = @ \o [k \in 1..done |->
                                                   Ev("cfg", f.rootNodes[k].name[1], 0)]]
             IN  /\ Fault(failAt # 0)
                 /\ IF failAt # 0 THEN Return(t, g, "", PhaseErr("cfg", f.importPath))
                    ELSE Goto(t, [g EXCEPT !.pc = "L127",
                                    !.initNodes = Flatten([k \in 1..n |->
                                                             InitNodesOf(f.rootNodes[k])])])
    /\ UNCHANGED <<world, shared, panicked, calls, hist>>

\* ----------------------------------------------- importSrc, lines 125-135

PhaseOrder_GlobalsFirst == <<"L146", "L138", "L153">>

\* what follows registration, in the order of the statements: the loop of
\* genRun and run over the roots (138), genGlobalVars and its run (146), the
\* init nodes and main (153)
PhaseOrder == <<"L138", "L146", "L153">>

\* the statement after the one at pc
NextPhase(pc) == PhaseOrder[(CHOOSE k \in 1..Len(PhaseOrder) : PhaseOrder[k] = pc) + 1]

\* interp.mutex.Lock()
Lock(t) ==
    /\ At(t, "L127")
    /\ mutex = ""
    /\ mutex' = t
    /\ Goto(t, [Top(t) EXCEPT !.pc = "L128"])
    /\ UNCHANGED <<world, srcPkg, pkgNames, rdir, scopes, frameSize, fmutex, panicked,
                   faults, calls, hist>>

\* gs := interp.scopes[importPath]; interp.srcPkg[importPath] = gs.sym
\* (gs.sym of a nil gs is a nil pointer dereference)
Register(t) ==
    /\ At(t, "L128")
    /\ LET f == Top(t)
       IN  \E fatal \in MapRace(t, {"L20"}) :
             IF scopes[f.importPath].nil \/ fatal
             THEN /\ panicked' = TRUE
                  /\ UNCHANGED <<stack, ret, succ, srcPkg, regs>>
             ELSE /\ srcPkg' = [srcPkg EXCEPT ![f.importPath] = SymOf(f.importPath)]
                  /\ regs' = [regs EXCEPT ![f.importPath] = Append(@, f.initNodes)]
                  /\ Goto(t, Logged([f EXCEPT !.pc = "L130"], Ev("register", "", 0)))
                  /\ UNCHANGED panicked
    /\ UNCHANGED <<world, pkgNames, rdir, scopes, frameSize, mutex, fmutex, faults,
                   calls, reads, execs>>

\* interp.pkgNames[importPath] = pkgName
RecordName(t) ==
    /\ At(t, "L130")
    /\ \E fatal \in MapRace(t, {"L21"}) :
         IF fatal
         THEN panicked' = TRUE /\ UNCHANGED <<pkgNames, stack, ret, succ>>
         ELSE /\ pkgNames' = [pkgNames EXCEPT ![Top(t).importPath] =
                                [ok |-> TRUE, name |-> Top(t).pkgName]]
              /\ Goto(t, [Top(t) EXCEPT !.pc = "L132"])
              /\ UNCHANGED panicked
    /\ UNCHANGED <<world, srcPkg, rdir, scopes, frameSize, mutex, fmutex,
                   faults, calls, hist>>

\* interp.frame.mutex.Lock()
FrameLock(t) ==
    /\ At(t, "L132")
    /\ fmutex = ""
    /\ fmutex' = t
    /\ Goto(t, [Top(t) EXCEPT !.pc = "L133"])
    /\ UNCHANGED <<world, srcPkg, pkgNames, rdir, scopes, frameSize, mutex, panicked,
                   faults, calls, hist>>

Max(a, b) == IF a >= b THEN a ELSE b

RECURSIVE SumOver(_, _)
SumOver(S, g) ==
    IF S = {} THEN 0
    ELSE LET x == CHOOSE y \in S : TRUE IN g[x] + SumOver(S \ {x}, g)

\* the global slots the scopes need
GlobalSlots(sc) == SumOver(ImportPaths, [p \in ImportPaths |-> Cardinality(sc[p].sym)])

\* interp.resizeFrame(): the frame grows to hold every global, never shrinks
resizeFrame(size, sc) == Max(size, GlobalSlots(sc))

ResizeFrame(t) ==
    /\ At(t, "L133")
    /\ frameSize' = resizeFrame(frameSize, scopes)
    /\ Goto(t, Logged([Top(t) EXCEPT !.pc = "L134"], Ev("resize", "", 0)))
    /\ UNCHANGED <<world, srcPkg, pkgNames, rdir, scopes, mutex, fmutex, panicked,
                   faults, calls, hist>>

\* interp.frame.mutex.Unlock()
FrameUnlock(t) ==
    /\ At(t, "L134")
    /\ fmutex' = ""
    /\ Goto(t, [Top(t) EXCEPT !.pc = "L135"])
    /\ UNCHANGED <<world, srcPkg, pkgNames, rdir, scopes, frameSize, mutex, panicked,
                   faults, calls, hist>>

Unlock_Forgotten(t) ==
    /\ At(t, "L135")
    /\ Goto(t, [Top(t) EXCEPT !.pc = PhaseOrder[1]])
    /\ UNCHANGED <<world, shared, panicked, faults, calls, hist>>

\* interp.mutex.Unlock()
Unlock(t) ==
    /\ At(t, "L135")
    /\ mutex' = ""
    /\ Goto(t, [Top(t) EXCEPT !.pc = PhaseOrder[1]])
    /\ UNCHANGED <<world, srcPkg, pkgNames, rdir, scopes, frameSize, fmutex, panicked,
                   faults, calls, hist>>

\* ----------------------------------------------- importSrc, lines 137-161

RECURSIVE BumpAll(_, _, _)
BumpAll(ex, importPath, nodes) ==
    IF nodes = <<>> THEN ex
    ELSE BumpAll(Bump(ex, <<importPath, Head(nodes)>>), importPath, Tail(nodes))

\* genRun and interp.run(n, nil) for each root; genRun fails at root number
\* failAt, or at none when failAt is 0
RunWrappers(t) ==
    /\ At(t, "L138")
    /\ LET f == Top(t)
           n == Len(f.rootNodes)
       IN  \E failAt \in 0..(IF faults < MaxFaults THEN n ELSE 0) :
             LET done == IF failAt = 0 THEN n ELSE failAt - 1
                 ran  == [k \in 1..done |-> Ev("wrap", f.rootNodes[k].name[1], 0)]
                 g    == [f EXCEPT !.log = @ \o ran]
             IN  /\ execs' = BumpAll(execs, f.importPath, ran)
                 /\ Fault(failAt # 0)
                 /\ IF failAt # 0 THEN Return(t, g, "", PhaseErr("genRun", f.importPath))
                    ELSE Goto(t, [g EXCEPT !.pc = NextPhase("L138")])
    /\ UNCHANGED <<world, shared, panicked, calls, reads, regs>>

\* n, err := genGlobalVars(rootNodes, gs); interp.run(n, nil)
RunGlobals(t) ==
    /\ At(t, "L146")
    /\ LET f == Top(t)
       IN  \E genErr \in Faulty :
             /\ Fault(genErr)
             /\ IF genErr THEN Return(t, f, "", PhaseErr("genGlobalVars", f.importPath))
                ELSE Goto(t, Logged([f EXCEPT !.pc = NextPhase("L146")], Ev("globals", "", 0)))
    /\ UNCHANGED <<world, shared, panicked, calls, hist>>

\* m := gs.sym[mainID]; pkgName == mainID && m != nil && skipTest
RunsMain(pkgName, sym, skipTest) == pkgName = mainID /\ mainID \in Ids(sym) /\ skipTest

\* m.node
MainNode(sym) == Ev("main", (CHOOSE x \in sym : x.id = mainID).file, 0)

\* main is added after all inits, the nodes run, importSrc returns pkgName
RunInits(t) ==
    /\ At(t, "L153")
    /\ LET f     == Top(t)
           sym   == scopes[f.importPath].sym
           nodes == IF RunsMain(f.pkgName, sym, f.skipTest)
                    THEN Append(f.initNodes, MainNode(sym))
                    ELSE f.initNodes
           g     == [f EXCEPT !.initNodes = nodes, !.log = @ \o nodes]
       IN  /\ execs' = BumpAll(execs, f.importPath, nodes)
           /\ Return(t, g, f.pkgName, NoErr)
    /\ UNCHANGED <<world, shared, panicked, faults, calls, reads, regs>>

\* ---------------------------------------------------------- specification

Next ==
    \/ \E t \in Threads : Call(t)
    \/ \E t \in Threads : CheckCached(t)
    \/ \E t \in Threads : ReturnCached(t)
    \/ \E t \in Threads : ResolveDir(t)
    \/ \E t \in Threads : CheckCycle(t)
    \/ \E t \in Threads : MarkInProgress(t)
    \/ \E t \in Threads : ReadDir(t)
    \/ \E t \in Threads : ParseFile(t)
    \/ \E t \in Threads : GtaImport(t)
    \/ \E t \in Threads : GtaResume(t)
    \/ \E t \in Threads : GtaDecls(t)
    \/ \E t \in Threads : GtaRetry(t)
    \/ \E t \in Threads : BuildCfg(t)
    \/ \E t \in Threads : Lock(t)
    \/ \E t \in Threads : Register(t)
    \/ \E t \in Threads : RecordName(t)
    \/ \E t \in Threads : FrameLock(t)
    \/ \E t \in Threads : ResizeFrame(t)
    \/ \E t \in Threads : FrameUnlock(t)
    \/ \E t \in Threads : Unlock(t)
    \/ \E t \in Threads : RunWrappers(t)
    \/ \E t \in Threads : RunGlobals(t)
    \/ \E t \in Threads : RunInits(t)

Spec == Init /\ [][Next]_vars

\* two evaluations drive the interpreter concurrently, ConcCalls imports of
\* the packages in src/main and src/b each, over the file systems with at
\* most one file in a directory
InitConc ==
    \E lm \in Listings(FilesMain), lb \in Listings(FilesB) :
        /\ Len(lm) <= 1 /\ Len(lb) <= 1
        /\ InitWith(FileSystem(lm, lb), EmptyStr, [t \in Threads |-> ConcCalls],
                    {PathMain, PathB})

SpecConc == InitConc /\ [][Next]_vars

\* -------------------------------------------------- the path functions

\* the longest path string the path functions are called with, in segments
MaxSegs == 3

\* path strings of at most MaxSegs segments over an alphabet: a string is
\* the sequence strings.Split makes of it ("" is <<"">>, "/x" is <<"", "x">>)
Strings(alphabet) == UNION { [1..n -> alphabet] : n \in 1..MaxSegs }

SearchSegs == {"", ".", "..", "go", "Go", "x"}

PkgSegs == {"", "..", "a", "b"}

\* searchUpDirPath(initial, target, isCaseSensitive) is called
CallSearchUp ==
    /\ pathCall = NoPathCall
    /\ \E initial \in Strings(SearchSegs), target \in {"go", "x"}, cs \in BOOLEAN :
         LET r == searchUpDirPath(initial, target, cs)
         IN  pathCall' = [fn |-> "searchUpDirPath", a |-> initial, b |-> <<target>>,
                          cs |-> cs, out |-> r.path, err |-> r.err]
    /\ UNCHANGED <<fsys, goToolDir, quota, targets, shared, panicked, faults, stack,
                   ret, calls, hist, succ>>

\* effectivePkg(root, path) is called
CallEffectivePkg ==
    /\ pathCall = NoPathCall
    /\ \E root \in Strings(PkgSegs), path \in Strings(PkgSegs) :
         pathCall' = [fn |-> "effectivePkg", a |-> root, b |-> path, cs |-> FALSE,
                      out |-> effectivePkg(root, path), err |-> ""]
    /\ UNCHANGED <<fsys, goToolDir, quota, targets, shared, panicked, faults, stack,
                   ret, calls, hist, succ>>

NextPaths == CallSearchUp \/ CallEffectivePkg

InitPaths == InitWith(FileSystem(<<>>, <<>>), EmptyStr, [t \in Threads |-> 0], {})

SpecPaths == InitPaths /\ [][NextPaths]_vars

\* ------------------------------------------------------------------ claims

\* the results the goroutines hold: each importSrc that returns is held by
\* its goroutine until that goroutine's next return or call
Returned == { ret[t] : t \in { u \in Threads : ret[u].valid } }

\* the invocations in progress
Active == UNION { { stack[t][k] : k \in 1..Len(stack[t]) } : t \in Threads }

Succeeded(r) == r.err = NoErr

\* a successful importSrc that went through the pipeline (no cache hit)
Loaded(r) == r.err = NoErr /\ r.fr.pc = "L153"

Eligible(file, skipTest) == ~skipFile(file.name, skipTest)

\* C1: an importSrc called for a path after an importSrc of that path has
\* succeeded returns the name of the first success with no error and has
\* made no call of directory discovery, ReadDir or ReadFile; no file is ever
\* read twice for one import path, and when an import has gone through the
\* pipeline successfully each file of its listing that is not skipped has
\* been read exactly once and each skipped one never.
C1_Idempotent ==
    /\ \A r \in Returned :
         r.fr.after =>
           /\ r.err = NoErr
           /\ r.name = succ[r.fr.importPath].name
           /\ r.fr.disc = 0 /\ r.fr.io = 0
    /\ \A key \in DOMAIN reads : reads[key] = 1
    /\ \A r \in Returned :
         Loaded(r) =>
           \A k \in 1..Len(r.fr.files) :
             Count(reads, <<r.fr.importPath, r.fr.files[k].name[1]>>)
               = IF Eligible(r.fr.files[k], r.fr.skipTest) THEN 1 ELSE 0

\* a second import of a loaded path has returned from the cache
C1_Witness ==
    \E r \in Returned :
      /\ r.fr.after /\ r.err = NoErr /\ r.fr.pc = "L21"
      /\ \E key \in DOMAIN reads : key[1] = r.fr.importPath

\* C2: a re-entrant importSrc, one called for a path while an importSrc of
\* that path is still on the call stack, returns the import cycle error that
\* names the path and has listed and read nothing; a re-entrant invocation
\* never gets past the cycle check; and whenever the cycle error is returned,
\* to the nested caller or passed on to the outer ones, neither the path it
\* names nor the path of the returning invocation is registered.
C2_CycleOnReentry ==
    /\ \A r \in Returned :
         r.fr.reentrant => r.err = CycleErr(r.fr.importPath) /\ r.fr.io = 0
    /\ \A f \in Active :
         f.reentrant => f.pc \in {"L20", "L29", "L40"} /\ f.io = 0
    /\ \A r \in Returned :
         r.err.kind = "cycle" =>
           srcPkg[r.err.path].nil /\ srcPkg[r.fr.importPath].nil

\* the invocations that are in progress or have just returned
Frames == Active \cup { r.fr : r \in Returned }

\* the positions in a trace of the entries of a kind
Pos(log, kind) == { k \in 1..Len(log) : log[k].kind = kind }

\* the positions in a trace of the entries of a kind about a file
PosOf(log, kind, what) == { k \in Pos(log, kind) : log[k].what = what }

\* C3: an invocation registers its import path only once the loop over the
\* listing is over and every AST root it collected has gone through gta and
\* cfg and every retry of phase two is done; and an importSrc that returns
\* an error, whatever the phase it comes from, leaves its import path
\* unregistered.
C3_RegisterLast ==
    /\ \A f \in Frames :
         \A k \in Pos(f.log, "register") :
           /\ f.i > Len(f.files)
           /\ \A n \in 1..Len(f.rootNodes) :
                /\ \E g \in PosOf(f.log, "gta", f.rootNodes[n].name[1]) : g < k
                /\ \E c \in PosOf(f.log, "cfg", f.rootNodes[n].name[1]) : c < k
           /\ \A q \in Pos(f.log, "retry") : q < k
    /\ \A r \in Returned :
         r.err # NoErr => srcPkg[r.fr.importPath].nil

\* C4: an importSrc that has loaded a package has run the main function if
\* and only if it was called at top level (not by the gta of an importing
\* package), with skipTest set, for a package named main that declares a main
\* function; an importSrc called for a dependency has run every init
\* function of the package and never its main function.
C4_MainOnlyForEntry ==
    \A r \in Returned :
      Loaded(r) =>
        /\ Pos(r.fr.log, "main") # {}
             <=> /\ r.depth = 1
                 /\ r.fr.pkgName = mainID
                 /\ r.fr.skipTest
                 /\ mainID \in Ids(scopes[r.fr.importPath].sym)
        /\ r.depth > 1 =>
             \A n \in 1..Len(r.fr.initNodes) :
               \E k \in Pos(r.fr.log, "init") : r.fr.log[k] = r.fr.initNodes[n]

\* the place of a file in a listing
IndexOf(files, base) == CHOOSE n \in 1..Len(files) : files[n].name[1] = base

\* in a trace the init functions run in the order of the listing, those of
\* one file in their order, and main runs after every init function
InListingOrder(f) ==
    /\ \A x, y \in Pos(f.log, "init") :
         x < y =>
           \/ IndexOf(f.files, f.log[x].what) < IndexOf(f.files, f.log[y].what)
           \/ f.log[x].what = f.log[y].what /\ f.log[x].k < f.log[y].k
    /\ \A m \in Pos(f.log, "main"), x \in Pos(f.log, "init") : x < m

\* C5: in every invocation the init functions run in the order in which
\* ReadDir listed their files and main, when it runs, runs after all of
\* them; no init or main function of an import path ever runs twice; and
\* when an importSrc of a path has succeeded, each init function of each AST
\* root of the package, the main function too when line 153 schedules it,
\* has run exactly once.
C5_InitOnceInOrder ==
    /\ \A f \in Frames : InListingOrder(f)
    /\ \A key \in DOMAIN execs :
         key[2].kind \in {"init", "main"} => execs[key] = 1
    /\ \A r \in Returned :
         Loaded(r) =>
           /\ \A n \in 1..Len(r.fr.rootNodes) :
                \A k \in 1..r.fr.rootNodes[n].inits :
                  Count(execs, <<r.fr.importPath, InitNodesOf(r.fr.rootNodes[n])[k]>>) = 1
           /\ RunsMain(r.fr.pkgName, scopes[r.fr.importPath].sym, r.fr.skipTest) =>
                Count(execs, <<r.fr.importPath, MainNode(scopes[r.fr.importPath].sym)>>) = 1
    /\ \A r \in Returned :
         r.err = NoErr =>
           /\ regs[r.fr.importPath] # <<>>
           /\ \A n \in 1..Len(regs[r.fr.importPath][1]) :
                Count(execs, <<r.fr.importPath, regs[r.fr.importPath][1][n]>>) = 1

\* C6: in every invocation the initializer of the global variables runs at
\* most once, after the loop over the listing is over, after the gta and the
\* wrapper of every AST root and after every retry of phase two, and before
\* every init function and main; no init function or main runs without it.
\* The listings of the file systems cover every order of the files.
C6_GlobalsBetween ==
    \A f \in Frames :
      /\ Cardinality(Pos(f.log, "globals")) <= 1
      /\ \A g \in Pos(f.log, "globals") :
           /\ f.i > Len(f.files)
           /\ \A n \in 1..Len(f.rootNodes) :
                /\ \E x \in PosOf(f.log, "gta", f.rootNodes[n].name[1]) : x < g
                /\ \E x \in PosOf(f.log, "wrap", f.rootNodes[n].name[1]) : x < g
           /\ \A x \in Pos(f.log, "retry") \cup Pos(f.log, "wrap") : x < g
           /\ \A x \in Pos(f.log, "init") \cup Pos(f.log, "main") : g < x
      /\ Pos(f.log, "init") \cup Pos(f.log, "main") # {} => Pos(f.log, "globals") # {}

\* a package of two files, one with a deferred declaration, has been loaded
\* and has run its wrappers, its globals, its init functions and main
C6_Witness ==
    \E r \in Returned :
      /\ Loaded(r)
      /\ Len(r.fr.rootNodes) = 2
      /\ Pos(r.fr.log, "retry") # {}
      /\ Cardinality(Pos(r.fr.log, "wrap")) = 2
      /\ Pos(r.fr.log, "globals") # {}
      /\ Pos(r.fr.log, "init") # {}
      /\ Pos(r.fr.log, "main") # {}

\* C7: whatever the interleaving of the goroutines, no import path is
\* written into srcPkg more than once, and the importSrc calls of the
\* goroutines for one import path return the same name and the same error.
C7_RegisteredOnce ==
    /\ \A p \in ImportPaths : Len(regs[p]) <= 1
    /\ \A r1, r2 \in Returned :
         r1.fr.importPath = r2.fr.importPath => r1.name = r2.name /\ r1.err = r2.err

\* C8: rdir[p] is set when an invocation lists the directory of p and it
\* stays set: it is set for every path of which a file has been read or
\* that has been registered; and an importSrc called for a path that an
\* earlier, failed importSrc has left marked returns the import cycle error
\* naming the path, with the path unregistered.
C8_MarkIsPermanent ==
    /\ \A f \in Frames : f.io > 0 => rdir[f.importPath]
    /\ \A key \in DOMAIN reads : rdir[key[1]]
    /\ \A p \in ImportPaths : regs[p] # <<>> => rdir[p]
    /\ \A r \in Returned :
         r.fr.stale => r.err = CycleErr(r.fr.importPath) /\ srcPkg[r.fr.importPath].nil

\* the identifiers that the AST roots of an invocation declare
DeclaredIn(rootNodes) ==
    UNION { { rootNodes[n].decls[k].id : k \in 1..Len(rootNodes[n].decls) }
              \cup (IF rootNodes[n].hasMain THEN {mainID} ELSE {})
            : n \in 1..Len(rootNodes) }

\* the number of entries of a kind about an identifier in a trace
Times(log, kind, what) == Cardinality(PosOf(log, kind, what))

\* C9: in every invocation a retry of phase two comes after the loop over
\* the listing is over and after the gta of every AST root; no declaration
\* is retried that gta did not defer and none is retried twice; once
\* gtaRetry is over (a CFG is built, or importSrc has returned its error)
\* every declaration that gta deferred has been retried exactly once;
\* gtaRetry fails only when a deferred declaration refers to an identifier
\* that no AST root of the package declares, whatever the order of the
\* listing; and an importSrc that returns the error of gtaRetry, its own or
\* that of an import, has built no CFG and its path is not registered.
C9_RetryAfterPhaseOne ==
    /\ \A f \in Frames :
         /\ \A q \in Pos(f.log, "retry") :
              /\ f.i > Len(f.files)
              /\ \A n \in 1..Len(f.rootNodes) :
                   \E x \in PosOf(f.log, "gta", f.rootNodes[n].name[1]) : x < q
              /\ \A x \in Pos(f.log, "gta") \cup Pos(f.log, "defer") : x < q
              /\ Times(f.log, "defer", f.log[q].what) = 1
              /\ Times(f.log, "retry", f.log[q].what) = 1
         /\ Pos(f.log, "cfg") # {} =>
              \A d \in Pos(f.log, "defer") : Times(f.log, "retry", f.log[d].what) = 1
    /\ \A r \in Returned :
         r.fr.pc = "L110" =>
           /\ r.err = PhaseErr("unresolved", r.fr.importPath)
           /\ \A d \in Pos(r.fr.log, "defer") : Times(r.fr.log, "retry", r.fr.log[d].what) = 1
           /\ \E e \in r.fr.revisit : \E k \in 1..Len(e.nodes) :
                e.nodes[k].ref \notin DeclaredIn(r.fr.rootNodes)
    /\ \A r \in Returned :
         r.err.kind = "unresolved" =>
           /\ Pos(r.fr.log, "cfg") = {}
           /\ Pos(r.fr.log, "register") = {}
           /\ srcPkg[r.fr.importPath].nil

\* a package has been loaded whose first file refers to an identifier that
\* its second file declares: the declaration was deferred and retried
C9_Witness ==
    \E r \in Returned :
      /\ Loaded(r)
      /\ Len(r.fr.rootNodes) = 2
      /\ \E d \in Pos(r.fr.log, "defer") :
           /\ r.fr.log[d].what \in { r.fr.rootNodes[1].decls[k].id :
                                       k \in 1..Len(r.fr.rootNodes[1].decls) }
           /\ Times(r.fr.log, "retry", r.fr.log[d].what) = 1

\* C10: in an invocation with skipTest set, pkgName is the package name of
\* the first AST root and every AST root has that name; the conflict error
\* is returned only with skipTest set, for a file that is not skipped, and
\* carries the name of the first AST root, the differing name of that file
\* and the directory; an importSrc that returns a conflict error, its own or
\* that of an import, leaves its path unregistered; and a test file is never
\* the file the error is about.
C10_FirstNameWins ==
    /\ \A f \in Frames :
         f.skipTest /\ f.rootNodes # <<>> =>
           /\ f.pkgName = f.rootNodes[1].pkg
           /\ \A n \in 1..Len(f.rootNodes) : f.rootNodes[n].pkg = f.pkgName
    /\ \A r \in Returned :
         r.err.kind = "conflict" =>
           /\ srcPkg[r.fr.importPath].nil
           /\ r.fr.pc = "L58" =>
                /\ r.fr.skipTest
                /\ r.fr.rootNodes # <<>>
                /\ Eligible(r.fr.files[r.fr.i], TRUE)
                /\ ~IsTestName(r.fr.files[r.fr.i].name)
                /\ r.fr.files[r.fr.i].pkg # r.fr.rootNodes[1].pkg
                /\ r.err = ConflictErr(r.fr.rootNodes[1].pkg, r.fr.files[r.fr.i].pkg,
                                       r.fr.dir)

\* src/main, whose test file declares another package name than its other
\* file, has been loaded with its test file skipped, and an importSrc of
\* src/b with skipTest set has returned the conflict error for the second
\* file of the directory
C10_Witness ==
    /\ ~srcPkg[PathMain].nil
    /\ pkgNames[PathMain] = [ok |-> TRUE, name |-> "main"]
    /\ \E k \in 1..Len(fsys[DirMain]) :
         /\ IsTestName(fsys[DirMain][k].name)
         /\ fsys[DirMain][k].pkg # "main"
         /\ Count(reads, <<PathMain, fsys[DirMain][k].name[1]>>) = 0
    /\ \E r \in Returned :
         /\ r.fr.skipTest /\ r.fr.pc = "L58" /\ r.fr.i = 2
         /\ r.err = ConflictErr(r.fr.files[1].pkg, r.fr.files[2].pkg, DirB)
         /\ r.fr.files[1].pkg # r.fr.files[2].pkg

\* C11: whatever the value of skipTest, an invocation that has registered
\* its import path has collected no two AST roots of files that are not
\* test files and declare different package names.
C11_OneNamePerDirectory ==
    \A f \in Frames :
      Pos(f.log, "register") # {} =>
        \A x, y \in 1..Len(f.rootNodes) :
          ~IsTestName(f.rootNodes[x].name) /\ ~IsTestName(f.rootNodes[y].name)
            => f.rootNodes[x].pkg = f.rootNodes[y].pkg

\* the lines of importSrc that write rdir, srcPkg, pkgNames or the frame,
\* and for each the lines that read or write the same structure
Writers == {"L43", "L128", "L130", "L133"}

Touching(pc) ==
    IF pc = "L43" THEN {"L40", "L43"}
    ELSE IF pc = "L128" THEN {"L20", "L128"}
    ELSE IF pc = "L130" THEN {"L21", "L130"}
    ELSE {"L133"}

\* C12: a goroutine that is about to write rdir, srcPkg, pkgNames or the
\* frame holds interp.mutex, and while it is about to write one of them no
\* other goroutine is about to read or write the same structure.
C12_WritesUnderMutex ==
    \A t \in Threads :
      stack[t] # <<>> /\ Top(t).pc \in Writers =>
        /\ mutex = t
        /\ \A u \in Threads \ {t} :
             stack[u] # <<>> => Top(u).pc \notin Touching(Top(t).pc)

\* the lines at which an invocation executes nodes
Executing == {"L138", "L146", "L153"}

\* C13: the frame mutex is held only by the goroutine that holds
\* interp.mutex; a goroutine waiting for interp.mutex holds no lock and one
\* waiting for the frame mutex finds it free, so the two locks cannot
\* deadlock; a goroutine that is about to execute nodes holds neither lock;
\* and in every invocation the resize of the frame precedes every execution
\* of a wrapper, of the globals initializer, of an init function and of
\* main, the frame being then large enough for the identifiers that the AST
\* roots of the invocation declare.
C13_LockOrder ==
    /\ fmutex # "" => mutex = fmutex
    /\ \A t \in Threads :
         stack[t] # <<>> =>
           /\ Top(t).pc = "L127" => mutex # t /\ fmutex # t
           /\ Top(t).pc = "L132" => mutex = t /\ fmutex = ""
           /\ Top(t).pc \in Executing =>
                /\ mutex # t /\ fmutex # t
                /\ frameSize >= Cardinality(DeclaredIn(Top(t).rootNodes))
    /\ \A f \in Frames :
         \A x \in Pos(f.log, "wrap") \cup Pos(f.log, "globals")
                  \cup Pos(f.log, "init") \cup Pos(f.log, "main") :
           \E z \in Pos(f.log, "resize") : z < x

\* one goroutine holds both locks and is about to resize the frame while
\* the other one waits for interp.mutex
C13_Witness ==
    \E t, u \in Threads :
      /\ t # u
      /\ At(t, "L133") /\ mutex = t /\ fmutex = t
      /\ At(u, "L127")

\* C14: directory discovery never ends the process; an importSrc that
\* returns from directory discovery with another error than that of
\* packages.Load returns the error that asks to set GOPATH or GOTOOLDIR when
\* goToolDir is empty and the other, not-found error when it is set, and its
\* path is neither marked in rdir nor registered; and an importSrc called
\* for a path right after one that failed to locate it runs the discovery
\* again and does not return the import cycle error.
C14_LocationErrors ==
    /\ \A t \in Threads : stack[t] # <<>> /\ Top(t).pc = "L29" => ~panicked
    /\ \A r \in Returned :
         r.fr.pc = "L29" /\ r.err.kind # "load" =>
           /\ r.err = PhaseErr(IF goToolDir = EmptyStr THEN "unconfigured" ELSE "notfound",
                               r.fr.importPath)
           /\ ~rdir[r.fr.importPath]
           /\ srcPkg[r.fr.importPath].nil
    /\ \A r \in Returned :
         r.fr.again => r.fr.disc = 1 /\ r.err.kind # "cycle"

\* updir == target, with updir lowered when the search is not case sensitive
SegEq(seg, target, cs) == IF cs THEN seg = target ELSE ToLower(seg) = target

\* the places of the segments of a path that equal the target
TargetAt(initial, target, cs) ==
    { k \in 1..Len(SplitJoin(initial)) : SegEq(SplitJoin(initial)[k], target, cs) }

\* C15: a call of searchUpDirPath on a path (taken here in its cleaned
\* form) returns, that is its recursion ends; when a segment of the initial
\* path equals the target it returns without error the nearest
\* ancestor-or-self of the path that ends with that segment, and when none
\* does it returns the error.
C15_SearchUpTerminates ==
    pathCall.fn = "searchUpDirPath" /\ SplitJoin(pathCall.a) = pathCall.a =>
      LET hits == TargetAt(pathCall.a, pathCall.b[1], pathCall.cs)
      IN  /\ pathCall.err # "overflow"
          /\ hits # {} =>
               /\ pathCall.err = ""
               /\ \A k \in hits :
                    (\A h \in hits : h <= k) =>
                      SplitJoin(pathCall.out) = SubSeq(SplitJoin(pathCall.a), 1, k)
          /\ hits = {} => pathCall.err = "notwithin"

\* a path of plain segments: no empty, "." or ".." segment
Plain(s) == \A k \in 1..Len(s) : s[k] \notin {"", ".", ".."}

\* the numbers k >= 1 such that the leading k segments of path are the
\* trailing k segments of root
Shared(root, path) ==
    { k \in 1..Len(path) :
        k <= Len(root) /\ SubSeq(path, 1, k) = SubSeq(root, Len(root) - k + 1, Len(root)) }

\* C16: when the leading k >= 1 segments of a path are the trailing k
\* segments of the root (both of plain segments), effectivePkg returns the
\* root followed by exactly the remaining segments of the path, the shared
\* segments appearing once.
C16_CollapsesSharedSegments ==
    pathCall.fn = "effectivePkg" /\ Plain(pathCall.a) /\ Plain(pathCall.b)
      /\ Shared(pathCall.a, pathCall.b) # {} =>
        \E k \in Shared(pathCall.a, pathCall.b) :
          pathCall.out = pathCall.a \o SubSeq(pathCall.b, k + 1, Len(pathCall.b))

\* the segments of a path at the places of keep, joined in their order
RECURSIVE JoinKept(_, _, _, _)
JoinKept(path, keep, k, frag) ==
    IF k > Len(path) THEN frag
    ELSE JoinKept(path, keep, k + 1, IF k \in keep THEN Join(frag, <<path[k]>>) ELSE frag)

\* C17: for every root and path, repeated and empty segments included, the
\* call of effectivePkg returns, every index at which it reads splitRoot is
\* within the slice, and its result is root joined with the segments of
\* path at some set of places that contains the last one, in their order.
C17_EffectivePkgTotal ==
    pathCall.fn = "effectivePkg" =>
      /\ \A index \in effAccess(pathCall.a, pathCall.b, 0, 0, 0, {}) :
           0 <= index /\ index < Len(pathCall.a)
      /\ \E keep \in SUBSET (1..Len(pathCall.b)) :
           /\ Len(pathCall.b) \in keep
           /\ pathCall.out = Join(pathCall.a, JoinKept(pathCall.b, keep, 1, EmptyStr))

\* a call with a repeated segment and an empty one in which a segment of
\* path was collapsed into root
C17_Witness ==
    /\ pathCall.fn = "effectivePkg"
    /\ pathCall.a = <<"", "a", "a">>
    /\ pathCall.b = <<"a", "a", "b">>
    /\ pathCall.out = <<"", "a", "a", "b">>
    /\ effAccess(pathCall.a, pathCall.b, 0, 0, 0, {}) = {1, 2}

\* C18: whenever an invocation is at the cache check of lines 20-21, every
\* import path with a symbol table in srcPkg has a display name in pkgNames,
\* and no invocation returns the inconsistent-knowledge error.
C18_NameWithSymbols ==
    /\ \A t \in Threads :
         stack[t] # <<>> /\ Top(t).pc \in {"L20", "L21"} =>
           \A p \in ImportPaths : ~srcPkg[p].nil => pkgNames[p].ok
    /\ \A r \in Returned : r.err.kind # "inconsistent"

\* C19: an invocation at the registration step (line 128) finds a package
\* scope for its import path, so that an invocation whose directory gave no
\* eligible source file does not dereference a missing scope there, and
\* every path registered has the symbols of an existing scope.
C19_ScopeAtRegistration ==
    /\ \A t \in Threads :
         stack[t] # <<>> /\ Top(t).pc = "L128" => ~scopes[Top(t).importPath].nil
    /\ \A p \in ImportPaths : ~srcPkg[p].nil => ~scopes[p].nil

\* what the events of a kind are about, in the order of the log
Whats(log, kind) ==
    LET evs == SelectSeq(log, LAMBDA e : e.kind = kind)
    IN  [k \in 1..Len(evs) |-> evs[k].what]

\* C20: in every invocation revisit has at most one key, the effective
\* sub-path of the invocation, so the range of line 110 has one order and
\* calls gtaRetry at most once; the nodes under that key are the deferred
\* declarations of all the files in the order gta returned them, and
\* gtaRetry, once called, has received exactly these in that order.
C20_SingleRevisitKey ==
    \A f \in Frames :
      /\ Cardinality(f.revisit) <= 1
      /\ Cardinality(Orders(f.revisit)) = 1
      /\ \A e \in f.revisit :
           /\ e.key = effectivePkg(f.rPath, f.importPath)
           /\ [k \in 1..Len(e.nodes) |-> e.nodes[k].id] = Whats(f.log, "defer")
      /\ Pos(f.log, "retry") # {} => Whats(f.log, "retry") = Whats(f.log, "defer")
      /\ Pos(f.log, "defer") # {} => f.revisit # {}

\* an invocation whose two files each deferred a declaration has called
\* gtaRetry on both
C20_Witness ==
    \E f \in Frames :
      /\ Len(f.rootNodes) = 2
      /\ Len(Whats(f.log, "retry")) = 2
      /\ \E e \in f.revisit :
           /\ Len(e.nodes) = 2
           /\ e.nodes[1].id \in { f.rootNodes[1].decls[k].id : k \in 1..Len(f.rootNodes[1].decls) }
           /\ e.nodes[2].id \in { f.rootNodes[2].decls[k].id : k \in 1..Len(f.rootNodes[2].decls) }

====
